---- MODULE Spec2Model ----
(***************************************************************************)
(* Model of media_player.py: the Pioneer receiver protocol engine          *)
(* (PioneerDevice).  Text is modelled as sequences of one-character        *)
(* strings, so that prefix tests, slicing, int() and zfill() are computed  *)
(* as the code computes them.  An optional value (Python None or a value)  *)
(* is the empty sequence or a one-element sequence.                        *)
(***************************************************************************)
EXTENDS Integers, Sequences, FiniteSets, TLC

\* ------------------------------------------------------------------ text

None == <<>>
Some(x) == <<x>>

CR == "\r"
LF == "\n"
Whitespace == {" ", "\t", CR, LF}

DigitChars == <<"0", "1", "2", "3", "4", "5", "6", "7", "8", "9">>

IsDigit(c) == \E k \in 1..10 : DigitChars[k] = c

DigitVal(c) == (CHOOSE k \in 1..10 : DigitChars[k] = c) - 1

\* s[n:] of Python (n >= 0)
SliceFrom(s, n) == IF n >= Len(s) THEN <<>> ELSE SubSeq(s, n + 1, Len(s))

\* str.startswith
StartsWith(s, p) == Len(s) >= Len(p) /\ SubSeq(s, 1, Len(p)) = p

\* str.strip(): whitespace removed at both ends
RECURSIVE LStrip(_)
LStrip(s) == IF s # <<>> /\ Head(s) \in Whitespace THEN LStrip(Tail(s)) ELSE s

RECURSIVE RStrip(_)
RStrip(s) ==
    IF s # <<>> /\ s[Len(s)] \in Whitespace
    THEN RStrip(SubSeq(s, 1, Len(s) - 1))
    ELSE s

Strip(s) == LStrip(RStrip(s))

\* the decimal value of a string of digits
RECURSIVE DigitsValue(_)
DigitsValue(s) ==
    IF s = <<>> THEN 0
    ELSE 10 * DigitsValue(SubSeq(s, 1, Len(s) - 1)) + DigitVal(s[Len(s)])

AllDigits(s) == s # <<>> /\ \A k \in 1..Len(s) : IsDigit(s[k])

\* int(s): an optional sign and decimal digits, ValueError for anything else
ParseInt(s) ==
    LET t == Strip(s)
        signed == t # <<>> /\ Head(t) \in {"-", "+"}
        body == IF signed THEN Tail(t) ELSE t
    IN  IF AllDigits(body)
        THEN [ok |-> TRUE,
              val |-> IF signed /\ Head(t) = "-"
                      THEN 0 - DigitsValue(body) ELSE DigitsValue(body)]
        ELSE [ok |-> FALSE, val |-> 0]

\* str(n) for n >= 0
RECURSIVE Str(_)
Str(n) ==
    IF n < 10 THEN <<DigitChars[n + 1]>>
    ELSE Str(n \div 10) \o <<DigitChars[(n % 10) + 1]>>

\* str.zfill(width) of an unsigned string
RECURSIVE ZFill(_, _)
ZFill(s, width) == IF Len(s) >= width THEN s ELSE ZFill(<<"0">> \o s, width)

\* ------------------------------------------------------ Python dictionaries
\* A dict is the sequence of its <<key, value>> items in insertion order.

DictKeys(d) == [k \in 1..Len(d) |-> d[k][1]]

DictHas(d, key) == \E k \in 1..Len(d) : d[k][1] = key

\* dict.get(key): None when the key is absent
DictGet(d, key) ==
    IF DictHas(d, key)
    THEN Some(d[CHOOSE k \in 1..Len(d) : d[k][1] = key][2])
    ELSE None

\* d[key] = value
DictSet(d, key, value) ==
    IF DictHas(d, key)
    THEN [k \in 1..Len(d) |-> IF d[k][1] = key THEN <<key, value>> ELSE d[k]]
    ELSE Append(d, <<key, value>>)

\* {v: k for k, v in d.items()}
RECURSIVE DictInvert(_)
DictInvert(d) ==
    IF d = <<>> THEN <<>>
    ELSE LET front == SubSeq(d, 1, Len(d) - 1)
             last == d[Len(d)]
         IN  DictSet(DictInvert(front), last[2], last[1])

\* ------------------------------------------------------------ constants

MAX_VOLUME == 185
MAX_SOURCE_NUMBERS == 60
\* read_response: for _ in range(3)
READ_ATTEMPTS == 3

S_PWR == <<"P", "W", "R">>
S_VOL == <<"V", "O", "L">>
S_MUT == <<"M", "U", "T">>
S_FN == <<"F", "N">>
S_SPK == <<"S", "P", "K">>
S_RGB == <<"R", "G", "B">>
S_DOWN == <<"D", "O", "W", "N">>
S_PWR0 == S_PWR \o <<"0">>
S_PWR1 == S_PWR \o <<"1">>
S_PWR2 == S_PWR \o <<"2">>
S_MUT0 == S_MUT \o <<"0">>
S_MUT1 == S_MUT \o <<"1">>

SOUND_MODE_LIST ==
    << <<"O", "F", "F">>,
       <<"A", " ", "O", "N">>,
       <<"B", " ", "O", "N">>,
       <<"A", "+", "B", " ", "O", "N">> >>

\* Python truth value of an optional string: None and "" are false
Truthy(value) == value # None /\ value[1] # <<>>

\* ------------------------------------------------------------- variables

VARIABLES
    \* PioneerDevice fields
    pwstate, volume, muted, source_enabled, selected_source,
    source_name_to_number, source_number_to_name, sound_mode,
    \* the receiver: its populated source slots, and replies to probes that
    \* are on their way to the engine
    slots, wire,
    \* the operation in progress: its name and argument, its position, the
    \* telnet local ("unbound", "open", "closed"), the lines handed to
    \* telnet.write, and how it ended
    pc, op, arg, telnet, written, outcome,
    \* telnet_command / processRequest locals
    command, expected_prefix, response,
    \* read_response: reads done in the current classification, and the
    \* first line read in it that starts with the expected prefix
    attempt, first_match,
    \* buildSourceMap: the slot being probed, and whether this operation
    \* wrote a probe; update: the query being processed
    i, probed, q,
    \* telnet_wakeup: whether its read saw the "R" line (None outside it)
    ready,
    \* history: the slots whose reply was read while their own probe waited
    heard,
    \* history: no operation has been called since construction
    fresh,
    \* history: an operation that has returned sent a slot probe
    built

engine == <<pwstate, volume, muted, source_enabled, selected_source,
            source_name_to_number, source_number_to_name, sound_mode>>
config == <<slots>>
frame == <<pc, op, arg, telnet, written, outcome, command, expected_prefix,
           response, attempt, first_match, i, probed, q, ready, wire, heard>>
vars == <<engine, config, frame, fresh, built>>

\* ------------------------------------------------------- State Decoder
\* Each decoder gives the new value of its field, and the exception it
\* raises ("none" when it returns).

setPower(pwstate_value) ==
    IF Truthy(pwstate_value) THEN pwstate_value[1] ELSE pwstate

\* Mutant: no line leaves the volume as it was
setVolumeStale(volume_str) ==
    IF Truthy(volume_str)
    THEN LET n == ParseInt(SliceFrom(volume_str[1], 3))
         IN  IF n.ok
             THEN [exc |-> "none", val |-> Some(<<n.val, MAX_VOLUME>>)]
             ELSE [exc |-> "ValueError", val |-> volume]
    ELSE [exc |-> "none", val |-> volume]

setVolume(volume_str) ==
    IF Truthy(volume_str)
    THEN LET n == ParseInt(SliceFrom(volume_str[1], 3))
         IN  IF n.ok
             THEN [exc |-> "none", val |-> Some(<<n.val, MAX_VOLUME>>)]
             ELSE [exc |-> "ValueError", val |-> volume]
    ELSE [exc |-> "none", val |-> None]

\* Mutant: the two mute tokens taken the other way round
setMuteSwapped(muted_value) ==
    IF Truthy(muted_value) THEN Some(muted_value[1] = S_MUT1) ELSE None

setMute(muted_value) ==
    IF Truthy(muted_value) THEN Some(muted_value[1] = S_MUT0) ELSE None

\* Mutant: the id taken one character too far into the line
setSourceOffByOne(source_number) ==
    IF Truthy(source_number)
    THEN DictGet(source_number_to_name, SliceFrom(source_number[1], 3))
    ELSE None

setSource(source_number) ==
    IF Truthy(source_number)
    THEN DictGet(source_number_to_name, SliceFrom(source_number[1], 2))
    ELSE None

\* list[k] of Python: a negative k counts from the end
ListIndex(list, k) ==
    IF k >= 0 /\ k < Len(list) THEN [exc |-> "none", val |-> Some(list[k + 1])]
    ELSE IF k < 0 /\ 0 - k <= Len(list)
         THEN [exc |-> "none", val |-> Some(list[Len(list) + k + 1])]
         ELSE [exc |-> "IndexError", val |-> None]

setSoundMode(resp) ==
    IF Truthy(resp)
    THEN LET n == ParseInt(SliceFrom(resp[1], 3))
         IN  IF n.ok
             THEN LET e == ListIndex(SOUND_MODE_LIST, n.val)
                  IN  IF e.exc = "none" THEN e
                      ELSE [exc |-> e.exc, val |-> sound_mode]
             ELSE [exc |-> "ValueError", val |-> sound_mode]
    ELSE [exc |-> "none", val |-> None]

\* updateResponse(prefix, value): the fields after the call and the
\* exception raised; a prefix with no handler changes nothing
updateResponse(prefix, value) ==
    LET same == [exc |-> "none", pwstate |-> pwstate, volume |-> volume,
                 muted |-> muted, selected_source |-> selected_source,
                 sound_mode |-> sound_mode]
    IN  IF prefix = S_PWR THEN [same EXCEPT !.pwstate = setPower(value)]
        ELSE IF prefix = S_VOL
        THEN [same EXCEPT !.exc = setVolume(value).exc,
                          !.volume = setVolume(value).val]
        ELSE IF prefix = S_MUT THEN [same EXCEPT !.muted = setMute(value)]
        ELSE IF prefix = S_FN
        THEN [same EXCEPT !.selected_source = setSource(value)]
        ELSE IF prefix = S_SPK
        THEN [same EXCEPT !.exc = setSoundMode(value).exc,
                          !.sound_mode = setSoundMode(value).val]
        ELSE same

\* ------------------------------------------------------ Command Encoder

\* round(): to the nearest integer, ties to the even one; num / den >= 0
RoundHalfEven(num, den) ==
    LET fl == num \div den
        rem2 == 2 * (num % den)
    IN  IF rem2 < den THEN fl
        ELSE IF rem2 > den THEN fl + 1
        ELSE IF fl % 2 = 0 THEN fl ELSE fl + 1

\* Mutant: the number formatted without its padding
VolumeCommandNoPad(v) ==
    Str(RoundHalfEven(v[1] * MAX_VOLUME, v[2])) \o <<"V", "L">>

\* f"{round(volume * MAX_VOLUME):03}VL", volume the fraction <<num, den>>
VolumeCommand(v) ==
    ZFill(Str(RoundHalfEven(v[1] * MAX_VOLUME, v[2])), 3) \o <<"V", "L">>

MuteCommand(mute) == IF mute THEN <<"M", "O">> ELSE <<"M", "F">>

SourceCommand(source) == DictGet(source_name_to_number, source)[1] \o S_FN

\* list.index(x): 0-based position of the first occurrence
ListIndexOf(list, x) == (CHOOSE k \in 1..Len(list) :
    list[k] = x /\ \A j \in 1..(k - 1) : list[j] # x) - 1

InList(list, x) == \E k \in 1..Len(list) : list[k] = x

SoundModeCommand(mode) == Str(ListIndexOf(SOUND_MODE_LIST, mode)) \o S_SPK

\* "?RGB" + str(i).zfill(2)
ProbeCommand(n) == <<"?">> \o S_RGB \o ZFill(Str(n), 2)

\* update(): the five processRequest calls, in order
Queries ==
    << [request |-> <<"?", "P">>, prefix |-> S_PWR],
       [request |-> <<"?", "V">>, prefix |-> S_VOL],
       [request |-> <<"?", "M">>, prefix |-> S_MUT],
       [request |-> <<"?", "F">>, prefix |-> S_FN],
       [request |-> <<"?", "S", "P", "K">>, prefix |-> S_SPK] >>

\* ------------------------------------------------------------ the receiver

N_TV == <<"T", "V">>
N_PHONO == <<"P", "H", "O", "N", "O">>
N_CD == <<"C", "D">>

\* A populated slot: its enabled flag and its name.  The receiver's inputs
\* are named by its owner: two of them may carry the same name
SlotConfigs ==
    { (5 :> [enabled |-> FALSE, name |-> N_PHONO]) @@
      (58 :> [enabled |-> TRUE, name |-> N_TV]),
      (58 :> [enabled |-> TRUE, name |-> N_TV]) @@
      (59 :> [enabled |-> FALSE, name |-> N_TV]) }

\* The reply to a probe of slot n: RGB, the slot, the flag, the name
SlotReply(n) ==
    S_RGB \o ZFill(Str(n), 2)
          \o <<IF slots[n].enabled THEN "1" ELSE "0">> \o slots[n].name

\* The slot a written probe asks for, or -1
ProbedSlot(cmd) ==
    LET digits == SliceFrom(cmd, 4)
    IN  IF StartsWith(cmd, <<"?">> \o S_RGB) /\ Len(digits) = 2
           /\ AllDigits(digits)
        THEN DigitsValue(digits) ELSE 0 - 1

\* How many probes later than its own the reply to a probe may still arrive
MaxLate == 1

\* Lines the receiver sends as replies or pushes on its own at any time
DeviceLines ==
    { S_PWR0, S_PWR1,
      S_VOL \o <<"1", "2", "1">>, S_VOL,
      S_MUT0, S_MUT1,
      S_FN \o <<"0", "0">>, S_FN \o <<"0", "5">>, S_FN \o <<"5", "8">>,
      S_SPK \o <<"3">>, S_SPK \o <<"4">>,
      <<"R">> }

Raw(line) == line \o <<CR, LF>>

\* telnet.read_until(b"\r\n", timeout=0.2): nothing within the timeout, or a
\* line of the receiver; and what is left on the wire afterwards
ReadOutcomes ==
    {[raw |-> <<>>, wire |-> wire, slot |-> 0 - 1]}
    \cup {[raw |-> Raw(l), wire |-> wire, slot |-> 0 - 1] : l \in DeviceLines}
    \cup (IF wire = <<>> THEN {}
          ELSE {[raw |-> Raw(SlotReply(Head(wire))), wire |-> Tail(wire),
                 slot |-> Head(wire)]})

StaticSources ==
    << <<N_TV, <<"0", "0">> >>, <<N_PHONO, <<"0", "5">> >> >>

\* a static map in which two names share an id
AliasSources ==
    << <<N_TV, <<"0", "0">> >>, <<N_PHONO, <<"0", "0">> >> >>

SourceArgs == {N_TV, N_PHONO, N_CD}
SoundModeArgs == {SOUND_MODE_LIST[4], <<"X">>}
VolumeArgs == {<<1, 2>>}

\* ------------------------------------------------------------------ Init

NoFrame ==
    /\ pc = "idle" /\ op = "none" /\ arg = None /\ telnet = "unbound"
    /\ written = <<>> /\ outcome = "none" /\ command = <<>>
    /\ expected_prefix = <<>> /\ response = None /\ attempt = 0
    /\ first_match = None /\ i = 0 /\ probed = FALSE /\ q = 0
    /\ ready = None /\ wire = <<>> /\ heard = {}

\* PioneerDevice.__init__
Init ==
    /\ pwstate = S_PWR1
    /\ volume = Some(<<0, 1>>)
    /\ muted = Some(FALSE)
    /\ source_enabled = <<>>
    /\ selected_source = Some(<<>>)
    /\ source_name_to_number \in {<<>>, StaticSources, AliasSources}
    /\ source_number_to_name = DictInvert(source_name_to_number)
    /\ sound_mode = None
    /\ slots \in SlotConfigs
    \* with a static map the slots are never probed: one receiver is enough
    /\ source_name_to_number # <<>> => 5 \in DOMAIN slots
    /\ fresh = TRUE
    /\ built = FALSE
    /\ NoFrame

\* ------------------------------------------------------------- accessors

\* state: STATE_OFF, STATE_ON, or None for any other tag
state ==
    IF pwstate \in {S_DOWN, S_PWR2, S_PWR1} THEN Some("off")
    ELSE IF pwstate = S_PWR0 THEN Some("on")
    ELSE None

\* The source-filtering policies an engine may be constructed with
\* (_enabled_sources_only, _disabled_source_list): they are never written
\* after construction and only source_list reads them, so they are its
\* parameters here
DisabledLists == {<<>>, <<N_PHONO>>, <<N_TV, N_CD>>}

\* source_list: the names kept, in the order of the dict; KeyError when a
\* kept name's number has no enabled flag
source_list(enabled_sources_only, disabled_source_list) ==
    LET names == DictKeys(source_name_to_number)
        number(name) == DictGet(source_name_to_number, name)[1]
        passed(name) == ~InList(disabled_source_list, name)
        failing(name) ==
            /\ passed(name)
            /\ enabled_sources_only
            /\ ~DictHas(source_enabled, number(name))
        kept(name) ==
            /\ passed(name)
            /\ \/ ~enabled_sources_only
               \/ DictGet(source_enabled, number(name)) = Some(TRUE)
    IN  IF (Len(disabled_source_list) > 0 \/ enabled_sources_only)
           /\ Len(source_name_to_number) > 0
        THEN IF \E k \in 1..Len(names) : failing(names[k])
             THEN [exc |-> "KeyError", val |-> <<>>]
             ELSE [exc |-> "none", val |-> SelectSeq(names, kept)]
        ELSE [exc |-> "none", val |-> names]

\* --------------------------------------------------------------- actions

Fields == <<pwstate, volume, muted, selected_source, sound_mode>>
Catalog == <<source_enabled, source_name_to_number, source_number_to_name>>

\* A public operation is entered: its frame is fresh
Enter(name, a, cmd, prefix) ==
    /\ pc = "idle"
    /\ pc' = "connect"
    /\ op' = name /\ arg' = a
    /\ command' = cmd /\ expected_prefix' = prefix
    /\ outcome' = "running"
    /\ UNCHANGED <<telnet, written, response, attempt, first_match, i,
                   probed, q, ready, wire, heard>>
    /\ fresh' = FALSE
    /\ UNCHANGED built
    /\ UNCHANGED <<engine, config>>

\* The operation ends without having connected
EndAtOnce(name, a, how) ==
    /\ pc = "idle"
    /\ pc' = "done"
    /\ op' = name /\ arg' = a
    /\ outcome' = how
    /\ UNCHANGED <<telnet, written, response, attempt, first_match, i,
                   probed, q, ready, wire, heard, command, expected_prefix>>
    /\ fresh' = FALSE
    /\ UNCHANGED built
    /\ UNCHANGED <<engine, config>>

update == Enter("update", None, <<>>, <<>>)

turn_off == Enter("turn_off", None, <<"P", "F">>, S_PWR)

turn_on == Enter("turn_on", None, <<"P", "O">>, S_PWR)

volume_up == Enter("volume_up", None, <<"V", "U">>, S_VOL)

volume_down == Enter("volume_down", None, <<"V", "D">>, S_VOL)

set_volume_level ==
    \E v \in VolumeArgs :
        Enter("set_volume_level", Some(v), VolumeCommand(v), S_VOL)

mute_volume ==
    \E mute \in BOOLEAN :
        Enter("mute_volume", Some(mute), MuteCommand(mute), S_MUT)

\* Mutant: no membership test, an unknown name encodes as a bare "FN"
select_source_unchecked ==
    \E source \in SourceArgs :
        Enter("select_source", Some(source),
              (IF DictHas(source_name_to_number, source)
               THEN DictGet(source_name_to_number, source)[1] ELSE <<>>)
                  \o S_FN,
              S_FN)

select_source ==
    \E source \in SourceArgs :
        IF DictHas(source_name_to_number, source)
        THEN Enter("select_source", Some(source), SourceCommand(source), S_FN)
        ELSE EndAtOnce("select_source", Some(source), "returned")

\* the else branch logs the undefined name `source`: NameError
select_sound_mode ==
    \E mode \in SoundModeArgs :
        IF InList(SOUND_MODE_LIST, mode)
        THEN Enter("select_sound_mode", Some(mode), SoundModeCommand(mode),
                   S_SPK)
        ELSE EndAtOnce("select_sound_mode", Some(mode), "NameError")

\* telnet_command has returned: turn_off then sets _pwstate
AfterCommand(pw) == IF op = "turn_off" THEN S_DOWN ELSE pw

\* telnetlib.Telnet(host, port, timeout), in telnet_command and in update.
\* On failure the handler calls telnet.close() on the unbound local.
Connect ==
    /\ pc = "connect"
    /\ \E ok \in BOOLEAN :
        IF ok
        THEN /\ telnet' = "open"
             /\ pc' = "wake"
             /\ UNCHANGED <<pwstate, outcome>>
        ELSE /\ pwstate' = S_DOWN
             /\ outcome' = "UnboundLocalError"
             /\ pc' = "done"
             /\ UNCHANGED telnet
    /\ UNCHANGED <<volume, muted, selected_source, sound_mode, Catalog,
                   config, op, arg, written, command, expected_prefix,
                   response, attempt, first_match, i, probed, q, ready, wire,
                   heard, fresh, built>>

\* A write that times out raises socket.timeout: telnet_command catches it
\* and returns with the session open; update lets it through.
WriteTimedOut ==
    /\ pc' = "done"
    /\ outcome' = IF op = "update" THEN "socket.timeout" ELSE "returned"
    /\ pwstate' = IF op = "update" THEN pwstate ELSE AfterCommand(pwstate)

\* Mutant: the probing pass run on every refresh
CatalogNeededAlways == TRUE

\* buildSourceMap: if not self._source_name_to_number
CatalogNeeded == source_name_to_number = <<>>

\* Mutant: a single bare terminator
HandshakeOnce == <<<<CR>>>>

\* telnet_wakeup: telnet.write(b"\r") twice
Handshake == <<<<CR>>, <<CR>>>>

\* telnet_wakeup: two bare terminators, then one read whose result is logged
Wakeup ==
    /\ pc = "wake"
    /\ \E w \in {"first", "second", "sent"}, saw \in BOOLEAN :
        IF w = "sent"
        THEN /\ written' = written \o Handshake
             /\ ready' = Some(saw)
             /\ pc' = IF op # "update" THEN "send"
                      ELSE IF CatalogNeeded THEN "probe"
                      ELSE "query"
             /\ q' = IF op = "update" THEN 1 ELSE q
             /\ UNCHANGED <<pwstate, outcome>>
        ELSE /\ written' = written \o (IF w = "first"
                                       THEN SubSeq(Handshake, 1, 1)
                                       ELSE Handshake)
             /\ WriteTimedOut
             /\ UNCHANGED <<ready, q>>
    /\ UNCHANGED <<volume, muted, selected_source, sound_mode, Catalog,
                   config, op, arg, telnet, command, expected_prefix,
                   response, attempt, first_match, i, probed, wire, heard,
                   fresh, built>>

\* telnet_command: telnet.write(cmdAscii + b"\r")
Send ==
    /\ pc = "send"
    /\ written' = Append(written, command \o <<CR>>)
    /\ ready' = None
    /\ attempt' = 0 /\ first_match' = None
    /\ \E ok \in BOOLEAN :
        IF ok
        THEN pc' = "read" /\ UNCHANGED <<pwstate, outcome>>
        ELSE WriteTimedOut
    /\ UNCHANGED <<volume, muted, selected_source, sound_mode, Catalog,
                   config, op, arg, telnet, command, expected_prefix,
                   response, i, probed, q, wire, heard, fresh, built>>

\* Mutants of the loop's test: the whole line compared, and no test at all
ResponseMatchesExact(result, prefix) == result = prefix

ResponseMatchesAny(result, prefix) == TRUE

\* read_response: the test that ends the loop
ResponseMatches(result, prefix) == StartsWith(result, prefix)

\* telnet_command after read_response gave resp: updateResponse, then
\* telnet.close(); an exception of the decoder leaves the function at once
CommandResult(resp) ==
    LET u == updateResponse(expected_prefix, resp)
    IN  /\ response' = resp
        /\ volume' = u.volume /\ muted' = u.muted
        /\ selected_source' = u.selected_source
        /\ sound_mode' = u.sound_mode
        /\ pc' = "done"
        /\ IF u.exc = "none"
           THEN /\ telnet' = "closed"
                /\ outcome' = "returned"
                /\ pwstate' = AfterCommand(u.pwstate)
           ELSE /\ outcome' = u.exc
                /\ pwstate' = u.pwstate
                /\ UNCHANGED telnet
        /\ UNCHANGED <<Catalog, i, q>>

\* processRequest after telnet_request gave resp: updateResponse; after the
\* last query update closes the session and returns True
QueryResult(prefix, resp) ==
    LET u == updateResponse(prefix, resp)
    IN  /\ response' = resp
        /\ pwstate' = u.pwstate
        /\ volume' = u.volume /\ muted' = u.muted
        /\ selected_source' = u.selected_source
        /\ sound_mode' = u.sound_mode
        /\ IF u.exc # "none"
           THEN /\ outcome' = u.exc /\ pc' = "done"
                /\ UNCHANGED <<telnet, q>>
           ELSE IF q = Len(Queries)
           THEN /\ telnet' = "closed" /\ outcome' = "True" /\ pc' = "done"
                /\ UNCHANGED q
           ELSE /\ q' = q + 1 /\ pc' = "query"
                /\ UNCHANGED <<telnet, outcome>>
        /\ UNCHANGED <<Catalog, i>>

\* Mutant: the slots counted from 1
SourceNumberFromOne(n) == ZFill(Str(n + 1), 2)

\* buildSourceMap: source_number = str(i).zfill(2)
SourceNumber(n) == ZFill(Str(n), 2)

\* buildSourceMap after telnet_request gave result for slot i
ProbeResult(result) ==
    /\ IF ~Truthy(result)
       THEN /\ UNCHANGED <<Catalog, outcome>>
            /\ i' = i + 1
            /\ pc' = IF i + 1 = MAX_SOURCE_NUMBERS THEN "query" ELSE "probe"
       ELSE IF Len(result[1]) <= 5
       THEN /\ outcome' = "IndexError" /\ pc' = "done"
            /\ UNCHANGED <<Catalog, i>>
       ELSE LET source_enabled_value == (result[1][6] = "1")
                source_name == SliceFrom(result[1], 6)
                source_number == SourceNumber(i)
            IN  /\ source_enabled' =
                       DictSet(source_enabled, source_number,
                               source_enabled_value)
                /\ source_name_to_number' =
                       DictSet(source_name_to_number, source_name,
                               source_number)
                /\ source_number_to_name' =
                       DictSet(source_number_to_name, source_number,
                               source_name)
                /\ i' = i + 1
                /\ pc' = IF i + 1 = MAX_SOURCE_NUMBERS THEN "query"
                         ELSE "probe"
                /\ UNCHANGED outcome
    /\ response' = result
    /\ UNCHANGED <<Fields, telnet, q>>

\* The replies on the wire once the probe of slot n is written: one that is
\* more than MaxLate probes old is lost, and a populated slot answers
Arrive(w, n) ==
    SelectSeq(w, LAMBDA j : n - j <= MaxLate)
        \o (IF ProbedSlot(ProbeCommand(n)) \in DOMAIN slots
            THEN <<ProbedSlot(ProbeCommand(n))>> ELSE <<>>)

\* buildSourceMap: telnet_request(telnet, "?RGB" + str(i).zfill(2), "RGB"),
\* the write; a write that times out gives None
ProbeWrite ==
    /\ pc = "probe"
    /\ command' = ProbeCommand(i)
    /\ expected_prefix' = S_RGB
    /\ probed' = TRUE
    /\ ready' = None
    /\ attempt' = 0 /\ first_match' = None
    /\ \E ok \in BOOLEAN :
        IF ok
        THEN /\ wire' = Arrive(wire, i)
             /\ pc' = "probe_read"
             /\ UNCHANGED <<engine, telnet, q, response, outcome, i>>
        ELSE /\ ProbeResult(None)
             /\ UNCHANGED wire
    /\ UNCHANGED <<config, op, arg, written, heard, fresh, built>>

\* update: processRequest(telnet, request, prefix), the write
QueryWrite ==
    /\ pc = "query"
    /\ command' = Queries[q].request
    /\ expected_prefix' = Queries[q].prefix
    /\ written' = Append(written, Queries[q].request \o <<CR>>)
    /\ ready' = None
    /\ attempt' = 0 /\ first_match' = None
    /\ \E ok \in BOOLEAN :
        IF ok
        THEN /\ pc' = "read"
             /\ UNCHANGED <<engine, telnet, q, response, outcome, i>>
        ELSE QueryResult(Queries[q].prefix, None)
    /\ UNCHANGED <<config, op, arg, probed, wire, heard, fresh, built>>

\* read_response: one pass of the loop, and what follows its return
Read ==
    /\ pc \in {"read", "probe_read"}
    /\ \E o \in ReadOutcomes :
        LET result == Strip(o.raw)
            done == ResponseMatches(result, expected_prefix)
                    \/ attempt + 1 >= READ_ATTEMPTS
            resp == IF ResponseMatches(result, expected_prefix)
                    THEN Some(result) ELSE None
        IN  /\ wire' = o.wire
            /\ heard' = IF pc = "probe_read" /\ o.slot = i
                        THEN heard \cup {i} ELSE heard
            /\ attempt' = attempt + 1
            /\ first_match' =
                   IF first_match = None /\ StartsWith(result, expected_prefix)
                   THEN Some(result) ELSE first_match
            /\ IF ~done
               THEN UNCHANGED <<engine, pc, telnet, outcome, response, i, q>>
               ELSE IF pc = "probe_read" THEN ProbeResult(resp)
               ELSE IF op = "update"
               THEN QueryResult(expected_prefix, resp)
               ELSE CommandResult(resp)
    /\ UNCHANGED <<config, op, arg, written, command, expected_prefix,
                   probed, ready, fresh, built>>

\* The operation has ended and its frame is dropped
Return ==
    /\ pc = "done"
    /\ pc' = "idle" /\ op' = "none" /\ arg' = None /\ telnet' = "unbound"
    /\ written' = <<>> /\ outcome' = "none" /\ command' = <<>>
    /\ expected_prefix' = <<>> /\ response' = None /\ attempt' = 0
    /\ first_match' = None /\ i' = 0 /\ probed' = FALSE /\ q' = 0
    /\ ready' = None /\ wire' = <<>> /\ heard' = {}
    /\ built' = (built \/ probed)
    /\ UNCHANGED <<engine, config, fresh>>

Next ==
    \/ update
    \/ turn_off
    \/ turn_on
    \/ volume_up
    \/ volume_down
    \/ set_volume_level
    \/ mute_volume
    \/ select_source
    \/ select_sound_mode
    \/ Connect
    \/ Wakeup
    \/ Send
    \/ ProbeWrite
    \/ QueryWrite
    \/ Read
    \/ Return

Spec == Init /\ [][Next]_vars

\* ------------------------------------------------- the volume round trip
\* set_volume_level's encoding and setVolume's decoding of the echoed
\* number, over the volume fractions num / den in [0, 1].

MaxDen == 6

VolumeFractions ==
    {<<num, den>> : num \in 0..(2 * MAX_VOLUME),
                    den \in (1..MaxDen) \cup {MAX_VOLUME, 2 * MAX_VOLUME}}

InitVolume ==
    /\ Init
    /\ source_name_to_number = <<>>
    /\ 5 \in DOMAIN slots

\* set_volume_level(volume) is called
VolumeCall ==
    /\ pc = "idle" /\ op = "none"
    /\ \E v \in VolumeFractions :
           /\ v[1] <= v[2]
           /\ arg' = Some(v)
    /\ op' = "set_volume_level"
    /\ pc' = "encode"
    /\ fresh' = FALSE
    /\ UNCHANGED built
    /\ UNCHANGED <<engine, config, telnet, written, outcome, command,
                   expected_prefix, response, attempt, first_match, i,
                   probed, q, ready, wire, heard>>

\* set_volume_level: the command text
VolumeEncode ==
    /\ pc = "encode"
    /\ command' = VolumeCommand(arg[1])
    /\ expected_prefix' = S_VOL
    /\ pc' = "echo"
    /\ UNCHANGED <<engine, config, op, arg, telnet, written, outcome,
                   response, attempt, first_match, i, probed, q, ready, wire,
                   heard, fresh, built>>

\* The receiver answers VOL and the number it was given
VolumeEcho ==
    /\ pc = "echo"
    /\ response' =
           Some(S_VOL \o SubSeq(command, 1, Len(command) - Len(<<"V", "L">>)))
    /\ pc' = "decode"
    /\ UNCHANGED <<engine, config, op, arg, telnet, written, outcome,
                   command, expected_prefix, attempt, first_match, i, probed,
                   q, ready, wire, heard, fresh, built>>

\* updateResponse("VOL", response)
VolumeDecode ==
    /\ pc = "decode"
    /\ volume' = updateResponse(expected_prefix, response).volume
    /\ outcome' = IF updateResponse(expected_prefix, response).exc = "none"
                  THEN "returned"
                  ELSE updateResponse(expected_prefix, response).exc
    /\ pc' = "done"
    /\ UNCHANGED <<pwstate, muted, selected_source, sound_mode, Catalog,
                   config, op, arg, telnet, written, command,
                   expected_prefix, response, attempt, first_match, i,
                   probed, q, ready, wire, heard, fresh, built>>

NextVolume ==
    \/ VolumeCall
    \/ VolumeEncode
    \/ VolumeEcho
    \/ VolumeDecode
    \/ Return

SpecVolume == InitVolume /\ [][NextVolume]_vars

\* ----------------------------------------------------------------- claims

Reading == pc \in {"read", "probe_read"}

C1_ConnectFailureReturns_Step ==
    (pc = "connect" /\ pc' = "done" /\ telnet' = "unbound") =>
        /\ pwstate' = S_DOWN
        /\ written' = <<>>
        /\ UNCHANGED <<volume, muted, selected_source, sound_mode, Catalog>>
        /\ outcome' = IF op = "update" THEN "False" ELSE "returned"

\* C1: when the connect attempt of an operation fails, power becomes
\* Disconnected, nothing is written, volume, mute, source, sound mode and
\* the catalog are unchanged, and the operation returns without raising
\* (refresh returns failure).
C1_ConnectFailureReturns == [][C1_ConnectFailureReturns_Step]_vars

\* C2: every operation that has ended has returned a value to its caller;
\* none has ended by an exception.
C2_NoOperationRaises ==
    pc = "done" => outcome \in {"returned", "True", "False"}

\* C3: when an operation has ended, returned or failed, the session it
\* opened is closed.
C3_SessionClosedAtEnd == pc = "done" => telnet # "open"

C4_ReplyTimeoutGivesUnknown_Step ==
    (pc = "read" /\ pc' # "read" /\ first_match' = None) =>
        /\ attempt' = 3
        /\ expected_prefix = S_VOL =>
              /\ volume' = None
              /\ UNCHANGED <<pwstate, muted, selected_source, sound_mode>>
        /\ expected_prefix = S_MUT =>
              /\ muted' = None
              /\ UNCHANGED <<pwstate, volume, selected_source, sound_mode>>
        /\ expected_prefix = S_FN =>
              /\ selected_source' = None
              /\ UNCHANGED <<pwstate, volume, muted, sound_mode>>
        /\ expected_prefix = S_SPK =>
              /\ sound_mode' = None
              /\ UNCHANGED <<pwstate, volume, muted, selected_source>>
        /\ expected_prefix \in {S_VOL, S_MUT, S_FN, S_SPK} =>
              /\ UNCHANGED Catalog
              /\ outcome' \in {"running", "returned", "True"}

\* C4: when a command or query for volume, mute, source or sound mode was
\* written and its three reads gave no line with the expected prefix, that
\* field is unknown afterwards, every other field and the catalog are
\* unchanged, and the operation goes on or returns normally.
C4_ReplyTimeoutGivesUnknown == [][C4_ReplyTimeoutGivesUnknown_Step]_vars

C4_Witness ==
    /\ pc = "done" /\ op = "volume_up" /\ outcome = "returned"
    /\ attempt = 3 /\ first_match = None
    /\ volume = None /\ muted = Some(FALSE) /\ telnet = "closed"

\* C5: in the state of a freshly constructed engine every field (power,
\* volume, mute, source, sound mode) reads as unknown.
C5_FreshFieldsUnknown ==
    fresh =>
        /\ state = None
        /\ volume = None
        /\ muted = None
        /\ selected_source = None
        /\ sound_mode = None

\* C6: a classification does at most 3 reads; while it is still reading no
\* line read so far started with the expected prefix; what it returns is
\* the first line read that starts with the prefix; and it returns no
\* match, after reading, only when all 3 reads have been done.
C6_ClassifierFirstMatch ==
    /\ attempt <= 3
    /\ Reading => first_match = None /\ attempt < 3
    /\ ~Reading =>
          /\ response = first_match
          /\ (response = None /\ attempt > 0) => attempt = 3

C6_Witness ==
    /\ pc = "done" /\ attempt = 3
    /\ response # None /\ StartsWith(response[1], expected_prefix)

C7_Changed(old, new, prefix) ==
    old # new =>
        /\ expected_prefix' = prefix
        /\ \/ new = None
           \/ first_match' # None /\ StartsWith(first_match'[1], prefix)

C7_UnmatchedPrefixNeverDecoded_Step ==
    pc \in {"send", "query", "probe", "read", "probe_read"} =>
        /\ pwstate' # pwstate =>
              /\ expected_prefix' = S_PWR
              /\ \/ op = "turn_off" /\ pwstate' = S_DOWN
                 \/ first_match' = Some(pwstate')
                       /\ StartsWith(pwstate', S_PWR)
        /\ C7_Changed(volume, volume', S_VOL)
        /\ C7_Changed(muted, muted', S_MUT)
        /\ C7_Changed(selected_source, selected_source', S_FN)
        /\ C7_Changed(sound_mode, sound_mode', S_SPK)

\* C7: a step of a command, query or probe changes no field other than the
\* one of the expected prefix, and a field it changes becomes unknown or is
\* decoded from a line that starts with that field's prefix (turn_off also
\* sets power to DOWN); the probe prefix RGB changes no field at all.
C7_UnmatchedPrefixNeverDecoded == [][C7_UnmatchedPrefixNeverDecoded_Step]_vars

C7_Witness ==
    /\ pc = "done" /\ op = "mute_volume" /\ attempt = 2
    /\ response = Some(S_MUT0) /\ muted = Some(TRUE)
    /\ volume = Some(<<0, 1>>) /\ pwstate = S_PWR1 /\ sound_mode = None

TwoDigits(n) == <<DigitChars[(n \div 10) + 1], DigitChars[(n % 10) + 1]>>

PopulatedSlots ==
    SelectSeq([k \in 1..MAX_SOURCE_NUMBERS |-> k - 1],
              LAMBDA n : n \in DOMAIN slots)

ExpectedList(enabled_only, disabled) ==
    LET wanted(n) ==
            /\ ~InList(disabled, slots[n].name)
            /\ enabled_only => slots[n].enabled
        kept == SelectSeq(PopulatedSlots, wanted)
    IN  [k \in 1..Len(kept) |-> slots[kept[k]].name]

CatalogAsReported ==
    /\ source_name_to_number =
           [k \in 1..Len(PopulatedSlots) |->
               <<slots[PopulatedSlots[k]].name, TwoDigits(PopulatedSlots[k])>>]
    /\ source_number_to_name =
           [k \in 1..Len(PopulatedSlots) |->
               <<TwoDigits(PopulatedSlots[k]), slots[PopulatedSlots[k]].name>>]
    /\ source_enabled =
           [k \in 1..Len(PopulatedSlots) |->
               <<TwoDigits(PopulatedSlots[k]),
                 slots[PopulatedSlots[k]].enabled>>]
    /\ \A enabled_only \in BOOLEAN, disabled \in DisabledLists :
           source_list(enabled_only, disabled) =
               [exc |-> "none", val |-> ExpectedList(enabled_only, disabled)]

AllAnsweredInTime ==
    probed /\ i = MAX_SOURCE_NUMBERS /\ heard = DOMAIN slots

\* C8 as claimed: when every populated slot answered its own probe in
\* time, the probed catalog has one name -> id entry per populated slot,
\* the id the two-digit slot index, the inverse entry and the reported
\* flag, and source_list gives, under every policy, the names in slot order
\* that are not in the disabled list and, with enabled-only, are enabled.
C8_CatalogBuildOriginal == AllAnsweredInTime => CatalogAsReported

DistinctNames ==
    \A m \in DOMAIN slots, n \in DOMAIN slots :
        m # n => slots[m].name # slots[n].name

\* C8 as amended: the same, for populated slots whose names are pairwise
\* distinct (of two slots with one name the catalog keeps one name -> id
\* entry, the later slot's).
C8_CatalogBuild == (AllAnsweredInTime /\ DistinctNames) => CatalogAsReported

C8_Witness ==
    /\ pc = "done" /\ op = "update" /\ outcome = "True"
    /\ AllAnsweredInTime /\ DistinctNames
    /\ source_name_to_number =
           << <<N_PHONO, <<"0", "5">> >>, <<N_TV, <<"5", "8">> >> >>
    /\ source_list(TRUE, <<>>).val = <<N_TV>>
    /\ source_list(FALSE, <<>>).val = <<N_PHONO, N_TV>>

C9_Id == DictGet(source_name_to_number, arg[1])[1]

C9_Known == op = "select_source" /\ DictHas(source_name_to_number, arg[1])

C9_Sent == C9_Known /\ pc = "done" /\ Len(written) = 3

\* C9: select_source on a name of the catalog writes, after the handshake,
\* one command and no more, the name's id followed by FN.  As claimed: when
\* the reply FN + id is classified the active source is that same name.
C9_SelectKnownSourceOriginal ==
    C9_Known =>
        /\ Len(written) <= 3
        /\ C9_Sent =>
              /\ written = << <<CR>>, <<CR>>, C9_Id \o S_FN \o <<CR>> >>
              /\ response = Some(S_FN \o C9_Id) => selected_source = arg

\* C9 as amended: select_source on a name of the catalog writes, after the
\* handshake, one command and no more, the name's id followed by FN; when
\* the reply FN + id is classified the active source is a name the catalog
\* gives that same id, and the selected name itself when no other name has
\* its id.
C9_SelectKnownSource ==
    C9_Known =>
        /\ Len(written) <= 3
        /\ C9_Sent =>
              /\ written = << <<CR>>, <<CR>>, C9_Id \o S_FN \o <<CR>> >>
              /\ response = Some(S_FN \o C9_Id) =>
                    /\ selected_source # None
                    /\ DictGet(source_name_to_number, selected_source[1])
                           = Some(C9_Id)
                    /\ (\A k \in 1..Len(source_name_to_number) :
                            source_name_to_number[k][2] = C9_Id
                                => source_name_to_number[k][1] = arg[1])
                           => selected_source = arg

C9_Witness ==
    /\ C9_Sent /\ arg = Some(N_PHONO)
    /\ written[3] = <<"0", "5", "F", "N", CR>>
    /\ response = Some(S_FN \o <<"0", "5">>)
    /\ selected_source = Some(N_PHONO)

C10_SelectUnknownSource_Step ==
    (pc = "idle" /\ op' = "select_source"
            /\ ~DictHas(source_name_to_number, arg'[1])) =>
        /\ pc' = "done"
        /\ outcome' = "returned"
        /\ telnet' = "unbound"
        /\ written' = <<>>
        /\ UNCHANGED engine

\* C10: select_source on a name that is not in the catalog ends at once:
\* no session is opened, nothing is written, no field and no catalog entry
\* changes, and it returns normally.
C10_SelectUnknownSource == [][C10_SelectUnknownSource_Step]_vars

C10_Witness ==
    /\ pc = "done" /\ op = "select_source" /\ arg = Some(N_CD)
    /\ outcome = "returned" /\ telnet = "unbound" /\ written = <<>>

C11_SelectSoundMode_Step ==
    (pc = "idle" /\ op' = "select_sound_mode") =>
        IF InList(SOUND_MODE_LIST, arg'[1])
        THEN /\ pc' = "connect"
             /\ command' = Str(ListIndexOf(SOUND_MODE_LIST, arg'[1])) \o S_SPK
        ELSE /\ pc' = "done"
             /\ outcome' = "returned"
             /\ written' = <<>>
             /\ UNCHANGED engine

\* C11: select_sound_mode on a name outside the four-entry list ends at
\* once, nothing written, no field changed, returning normally; on a name
\* of the list it goes on to send the name's index followed by SPK.
C11_SelectSoundMode == [][C11_SelectSoundMode_Step]_vars

C12_Abs(n) == IF n < 0 THEN 0 - n ELSE n

\* C12: set_volume_level(num / den) sends three digits and VL, the digits
\* the integer of 0..185 nearest to 185 * num / den (the even one on a
\* tie), and the reply VOL + those digits decodes to a fraction of [0, 1]
\* within 1/185 of num / den, equal to it when it is a multiple of 1/185.
C12_VolumeRoundTrip ==
    (pc = "done" /\ op = "set_volume_level") =>
        LET num == arg[1][1]
            den == arg[1][2]
            digits == SubSeq(command, 1, 3)
            n == DigitsValue(digits)
        IN  /\ Len(command) = 5
            /\ AllDigits(digits)
            /\ SubSeq(command, 4, 5) = <<"V", "L">>
            /\ n \in 0..MAX_VOLUME
            /\ 2 * C12_Abs(n * den - MAX_VOLUME * num) <= den
            /\ 2 * C12_Abs(n * den - MAX_VOLUME * num) = den => n % 2 = 0
            /\ outcome = "returned"
            /\ volume # None
            /\ volume[1][2] = MAX_VOLUME
            /\ volume[1][1] \in 0..MAX_VOLUME
            /\ C12_Abs(volume[1][1] * den - MAX_VOLUME * num) <= den
            /\ (MAX_VOLUME * num) % den = 0 =>
                   volume[1][1] * den = MAX_VOLUME * num

C12_Witness ==
    /\ pc = "done" /\ op = "set_volume_level" /\ arg = Some(<<1, 2>>)
    /\ command = <<"0", "9", "2", "V", "L">>
    /\ response = Some(<<"V", "O", "L", "0", "9", "2">>)
    /\ volume = Some(<<92, MAX_VOLUME>>)

C13_MuteDecode_Step ==
    (expected_prefix' = S_MUT
        /\ \/ Reading /\ pc' \notin {"read", "probe_read"}
           \/ muted' # muted) =>
        muted' = IF first_match' = None THEN None
                 ELSE Some(first_match'[1] = S_MUT0)

\* C13: a step that ends the classification of a MUT reply, or that changes
\* muted while MUT is expected, leaves muted true when the classified line
\* is MUT0, false when it is another MUT line, unknown when there is none.
C13_MuteDecode == [][C13_MuteDecode_Step]_vars

C13_Witness ==
    /\ pc = "done" /\ op = "mute_volume" /\ arg = Some(FALSE)
    /\ attempt = 1 /\ response = Some(S_MUT1) /\ muted = Some(FALSE)
    /\ outcome = "returned"

\* C14: when an operation has ended on a classified SPK reply it has
\* returned normally and the sound mode is one of the four names or
\* unknown; it is the name at the reply's index when that is 0..3.
C14_SoundModeInRange ==
    (pc = "done" /\ expected_prefix = S_SPK /\ response # None) =>
        LET n == ParseInt(SliceFrom(response[1], 3))
        IN  /\ outcome \in {"returned", "True"}
            /\ \/ sound_mode = None
               \/ \E k \in 1..Len(SOUND_MODE_LIST) :
                      sound_mode = Some(SOUND_MODE_LIST[k])
            /\ (n.ok /\ n.val \in 0..(Len(SOUND_MODE_LIST) - 1)) =>
                   sound_mode = Some(SOUND_MODE_LIST[n.val + 1])

C15_PowerDecode_Step ==
    /\ (pc = "read" /\ expected_prefix = S_PWR /\ pc' # "read") =>
           pwstate' = IF first_match' = None THEN pwstate
                      ELSE first_match'[1]
    /\ (pwstate # S_DOWN /\ pwstate' = S_DOWN) =>
           pc = "connect" /\ telnet' = "unbound"
    /\ (pwstate = S_DOWN /\ pwstate' # S_DOWN) =>
           /\ telnet = "open" /\ expected_prefix' = S_PWR
           /\ first_match' = Some(pwstate')

\* C15: the step that ends the classification of a PWR reply leaves power
\* equal to the classified token, or unchanged when there is none; power
\* becomes DOWN only by a failed connect, and stops being DOWN only by a
\* PWR token classified in an open session.
C15_PowerDecode == [][C15_PowerDecode_Step]_vars

\* The catalog changes only in a refresh that has sent a probe; and an
\* engine whose map was supplied at construction (a map with entries and
\* no probe sent so far) sends no probe and records no enabled flag
C16_OnlyProbingBuilds ==
    /\ Catalog' # Catalog => op = "update" /\ probed
    /\ (source_name_to_number # <<>> /\ ~built /\ ~probed) =>
           /\ source_enabled = <<>>
           /\ ~built' /\ ~probed' /\ source_enabled' = <<>>

C16_BuiltAtMostOnceOriginal_Step ==
    /\ (~probed /\ probed') => ~built
    /\ C16_OnlyProbingBuilds

\* C16 as claimed: a refresh sends slot probes only if no earlier
\* operation sent one; the catalog changes only in a refresh that probes;
\* and with a static map no probe is sent and no enabled flag is recorded.
C16_BuiltAtMostOnceOriginal == [][C16_BuiltAtMostOnceOriginal_Step]_vars

C16_BuiltAtMostOnce_Step ==
    /\ (~probed /\ probed') => source_name_to_number = <<>>
    /\ (pc = "wake" /\ op = "update" /\ source_name_to_number # <<>>) =>
           pc' \notin {"probe", "probe_read"}
    /\ C16_OnlyProbingBuilds

\* C16 as amended: a refresh sends slot probes only if the catalog is empty
\* when it begins, and a refresh that begins with an entry in the catalog
\* sends none; the catalog changes only in a refresh that probes; and with
\* a static map no probe is sent and no enabled flag is recorded.
C16_BuiltAtMostOnce == [][C16_BuiltAtMostOnce_Step]_vars

C16_Witness ==
    /\ built /\ ~probed
    /\ pc = "done" /\ op = "update" /\ outcome = "True"
    /\ source_name_to_number # <<>> /\ source_enabled # <<>>
    /\ Len(written) = 2 + Len(Queries)

C17_WakeFirst_Step ==
    /\ pc = "wake" => written = <<>> /\ ~probed
    /\ (pc \in {"send", "probe", "probe_read", "query", "read"} \/ probed) =>
           Len(written) >= 2
    /\ Len(written) >= 1 => written[1] = <<CR>>
    /\ Len(written) >= 2 => written[2] = <<CR>>
    /\ \A k \in 3..Len(written) : written[k] # <<CR>>
    /\ (pc = "wake" /\ pc' # "done") =>
           /\ ready' \in {Some(TRUE), Some(FALSE)}
           /\ written' = << <<CR>>, <<CR>> >>
           /\ pc' = IF op # "update" THEN "send"
                    ELSE IF source_name_to_number = <<>> THEN "probe"
                    ELSE "query"
           /\ UNCHANGED <<engine, telnet, outcome, command, expected_prefix>>
    /\ pc = "send" => written' = Append(written, command \o <<CR>>)
    /\ pc = "probe" => command' = ProbeCommand(i)
    /\ pc = "query" =>
           written' = Append(written, Queries[q].request \o <<CR>>)

\* C17: in every session the first two writes are the bare terminators and
\* no later write is one; no command, query or probe is written before
\* them; and the step that does the handshake's read goes on to the same
\* command, query or probe whether or not the read saw the sentinel.
C17_WakeFirst == [][C17_WakeFirst_Step]_vars

C17_Witness ==
    /\ pc = "send" /\ op = "turn_on" /\ telnet = "open"
    /\ ready = Some(FALSE)
    /\ written = << <<CR>>, <<CR>> >>

C18_SourceKeepsId_Step ==
    /\ (pc = "read" /\ expected_prefix = S_FN /\ pc' # "read") =>
           IF first_match' = None THEN selected_source' = None
           ELSE LET id == SliceFrom(first_match'[1], 2)
                IN  IF DictHas(source_number_to_name, id)
                    THEN selected_source' = DictGet(source_number_to_name, id)
                    ELSE selected_source' # None
    /\ selected_source \notin {None, Some(<<>>)} =>
           \E k \in 1..Len(source_number_to_name) :
               source_number_to_name[k][2] = selected_source[1]

\* C18: the step that ends the classification of an FN reply leaves the
\* active source unknown when no line was classified, the catalog's name
\* for the id when the inverse map has it, and otherwise something other
\* than unknown; and an active source that has a name is a name of the
\* inverse map.
C18_SourceKeepsId == [][C18_SourceKeepsId_Step]_vars

\* C19: in a catalog built by probing, the name and the enabled flag
\* recorded under an id are those of the receiver's slot of that number.
C19_ProbeAttribution ==
    (probed \/ built) =>
        \A k \in 1..Len(source_number_to_name) :
            LET id == source_number_to_name[k][1]
                n == DigitsValue(id)
            IN  /\ n \in DOMAIN slots
                /\ source_number_to_name[k][2] = slots[n].name
                /\ DictGet(source_enabled, id) = Some(slots[n].enabled)

\* C20: under every filtering policy source_list returns, without failing,
\* a list of names of the catalog.
C20_SourceListDefined ==
    \A enabled_only \in BOOLEAN, disabled \in DisabledLists :
        /\ source_list(enabled_only, disabled).exc = "none"
        /\ \A k \in 1..Len(source_list(enabled_only, disabled).val) :
               DictHas(source_name_to_number,
                       source_list(enabled_only, disabled).val[k])

====
